---- MODULE Spec2Model ----
(***************************************************************************)
(* A model of rasa/utils/io.py: the YAML/JSON readers (read_yaml,          *)
(* read_file, read_config_file, read_yaml_file, read_json_file), the YAML  *)
(* writer (write_yaml_file) and the path helpers (is_subdirectory,         *)
(* create_path, create_directory_for_file).                                *)
(*                                                                         *)
(* Text is a sequence of tokens.  A token is an atomic piece of text: a    *)
(* single character ("a", "F", "$", "{", "}", " ", "/", ".") or one of the *)
(* literal words of YAML ("0", "1", "true", "false", "null", "~").  The    *)
(* text a sequence stands for is the concatenation of its tokens.          *)
(***************************************************************************)
EXTENDS Integers, Sequences, FiniteSets, TLC

VARIABLES
    env,                 \* os.environ: name -> [set, val]
    constructors,        \* the constructor tables of the shared ruamel.yaml classes
    implicit_resolvers,  \* the shared list of implicit resolvers of ruamel.yaml
    files,               \* the regular files of the file system: absolute path -> [exists, doc]
    dirs,                \* the directories of the file system: a set of absolute paths
    content,             \* the YAML text the caller holds
    data,                \* the Python mapping the caller holds
    result,              \* the outcome of the last finished call
    written,             \* for each file written by write_yaml_file, the mapping it was given
    file_path,           \* the path the callers of the path helpers hold
    parent_directory,    \* the potential_parent_directory the caller holds
    thread               \* the threads running create_path / create_directory_for_file

vars == <<env, constructors, implicit_resolvers, files, dirs, content, data,
          result, written, file_path, parent_directory, thread>>

----------------------------------------------------------------------------
(* Bounds of the model. *)

\* longest scalar text, in tokens
MaxLen == 4
\* longest value of an environment variable, in tokens
MaxEnvLen == 1
\* most items of a sequence or a mapping
MaxItems == 1
\* most entries the shared implicit resolver list is allowed to grow to
MaxRegistrations == 2
\* longest path argument, in tokens
MaxPathLen == 4
\* the threads that call the path helpers
NumThreads == 2
\* most calls one thread makes
MaxCalls == 2

----------------------------------------------------------------------------
(* Text. *)

\* the characters scalars are made of
Alphabet == {"a", "F", "$", "{", "}", " "}
\* the tokens that are whole YAML literals
Literals == {"0", "1", "true", "false", "null", "~"}
\* what Python's \w matches
WordChars == {"a", "F", "b", "0", "1", "true", "false", "null"}

SeqsUpTo(S, n) == UNION {[1..k -> S] : k \in 0..n}

Texts == SeqsUpTo(Alphabet, MaxLen) \cup {<<l>> : l \in Literals}

\* Python's `c in s`
In(c, s) == \E i \in 1..Len(s) : s[i] = c

\* s[i:] of Python, i counted from 1
From(s, i) == SubSeq(s, i, Len(s))
\* s[:i] of Python: the first i tokens
Upto(s, i) == SubSeq(s, 1, i)

\* whether t occurs in s as a contiguous run (Python's `t in s` for strings)
IsSubstring(t, s) ==
    \E i \in 0..(Len(s) - Len(t)) : SubSeq(s, i + 1, i + Len(t)) = t

StartsWith(s, t) == Len(t) <= Len(s) /\ Upto(s, Len(t)) = t

----------------------------------------------------------------------------
(* The process environment and os.path.expandvars. *)

\* the names the environment may hold; every other name is unset
EnvNames == {<<"F">>}
EnvValues == SeqsUpTo(Alphabet, MaxEnvLen)
\* an unset name holds no value
Environments ==
    {e \in [EnvNames -> [set : BOOLEAN, val : EnvValues]] :
        \A n \in EnvNames : ~e[n].set => e[n].val = <<>>}

\* `name in os.environ`
IsSet(e, name) == name \in DOMAIN e /\ e[name].set

RECURSIVE WordRunEnd(_, _)
\* the index of the last token of the run of \w tokens that starts at i
WordRunEnd(s, i) ==
    IF i <= Len(s) /\ s[i] \in WordChars THEN WordRunEnd(s, i + 1) ELSE i - 1

\* posixpath._varprog, \$(\w+|\{[^}]*\}), tried at index p: the index of the last
\* token of the match, 0 when there is no match at p
MatchEnd(s, p) ==
    IF s[p] # "$" \/ p = Len(s) THEN 0
    ELSE IF s[p + 1] \in WordChars THEN WordRunEnd(s, p + 1)
    ELSE IF s[p + 1] = "{" /\ (\E q \in (p + 2)..Len(s) : s[q] = "}")
         THEN CHOOSE q \in (p + 2)..Len(s) :
                  s[q] = "}" /\ \A r \in (p + 2)..(q - 1) : s[r] # "}"
    ELSE 0

\* _varprog.search(s, i): the index of the leftmost match at or after i, 0 if none
Search(s, i) ==
    IF \E p \in i..Len(s) : MatchEnd(s, p) # 0
    THEN CHOOSE p \in i..Len(s) :
             MatchEnd(s, p) # 0 /\ \A r \in i..(p - 1) : MatchEnd(s, r) = 0
    ELSE 0

\* the variable name of the match s[p..j]: the braces are dropped
MatchName(s, p, j) ==
    IF s[p + 1] = "{" THEN SubSeq(s, p + 2, j - 1) ELSE SubSeq(s, p + 1, j)

RECURSIVE ExpandFrom(_, _, _)
\* one turn of the loop of posixpath.expandvars, for the match path[p..j] of
\* the variable `name`: a name that is set is replaced by its value and the
\* search goes on behind the value, a name that is not set is left and the
\* search goes on behind the match
ExpandMatch(e, path, p, j, name) ==
    IF IsSet(e, name)
    THEN ExpandFrom(e, Upto(path, p - 1) \o e[name].val \o From(path, j + 1),
                    p + Len(e[name].val))
    ELSE ExpandFrom(e, path, j + 1)

\* the leftmost match at or after i being at p (0: no match), the rest of the loop
ExpandAt(e, path, p) ==
    IF p = 0 THEN path
    ELSE ExpandMatch(e, path, p, MatchEnd(path, p),
                     MatchName(path, p, MatchEnd(path, p)))

\* the loop of posixpath.expandvars, from index i on
ExpandFrom(e, path, i) == ExpandAt(e, path, Search(path, i))

\* os.path.expandvars(path)
expandvars(e, path) == IF ~In("$", path) THEN path ELSE ExpandFrom(e, path, 1)

RECURSIVE WordEnd(_, _)
\* the index of the last token of the run of non-blank tokens that starts at i
WordEnd(s, i) == IF i <= Len(s) /\ s[i] # " " THEN WordEnd(s, i + 1) ELSE i - 1

RECURSIVE split(_)
\* str.split(): the words between runs of blanks
split(s) ==
    IF s = <<>> THEN <<>>
    ELSE IF s[1] = " " THEN split(Tail(s))
    ELSE LET n == WordEnd(s, 1) IN <<Upto(s, n)>> \o split(From(s, n + 1))

HasDollar(w) == In("$", w)

\* env_var_pattern, ^(.*)\$\{(.*)\}(.*)$, matched from the start of the scalar
env_var_pattern(s) ==
    \E i \in 1..Len(s) : \E j \in 1..Len(s) :
        /\ s[i] = "$"
        /\ i + 1 <= Len(s) /\ s[i + 1] = "{"
        /\ j >= i + 2 /\ s[j] = "}"

----------------------------------------------------------------------------
(* Python values and exceptions. *)

PyNone == [type |-> "NoneType", text |-> <<>>, num |-> 0, items |-> <<>>]
PyStr(t) == [type |-> "str", text |-> t, num |-> 0, items |-> <<>>]
PyInt(n) == [type |-> "int", text |-> <<>>, num |-> n, items |-> <<>>]
\* bool is a subclass of int: True is 1, False is 0
PyBool(b) == [type |-> "bool", text |-> <<>>, num |-> IF b THEN 1 ELSE 0, items |-> <<>>]
PyList(vs) == [type |-> "list", text |-> <<>>, num |-> 0, items |-> vs]
\* a dict whose i-th key is the i-th key of the document
PyDict(vs) == [type |-> "dict", text |-> <<>>, num |-> 0, items |-> vs]

\* Python's truth value of v, what `v or {}` tests
Truthy(v) ==
    CASE v.type = "NoneType" -> FALSE
      [] v.type = "str" -> v.text # <<>>
      [] v.type \in {"int", "bool"} -> v.num # 0
      [] OTHER -> v.items # <<>>

\* `v or {}`
OrEmptyDict(v) == IF Truthy(v) THEN v ELSE PyDict(<<>>)

NoPath == <<>>
NoExc ==
    [type |-> "", origin |-> "", message |-> "", path |-> NoPath,
     text |-> <<>>, names |-> <<>>, found |-> "", errno |-> ""]
\* an exception of the YAML library or of a codec, raised at `origin`
LibraryError(type, origin) == [NoExc EXCEPT !.type = type, !.origin = origin]
\* an OSError of the operating system
OSError(type, errno, path) ==
    [NoExc EXCEPT !.type = type, !.errno = errno, !.path = path]

\* the outcome of an expression: a value, or an exception
Value(v) == [ok |-> TRUE, value |-> v, exc |-> NoExc]
Raise(e) == [ok |-> FALSE, value |-> PyNone, exc |-> e]

----------------------------------------------------------------------------
(* YAML documents.  A text is described by what the YAML scanner and       *)
(* parser make of it: `fault` is the error the first pass over the text    *)
(* ends in ("" when it parses), and otherwise `kind` and `nodes` are the   *)
(* top-level node and its scalars.  For a text whose first pass fails,     *)
(* `transcoding` tells whether the utf-8 / raw_unicode_escape / utf-16     *)
(* chain decodes it, `retry_fault` how the pass over the transcoded text   *)
(* ends, and `kind` and `nodes` describe the transcoded text.              *)

\* a plain scalar is not empty, has no blank at either end and does not start
\* with a flow indicator
IsPlainText(t) ==
    /\ t # <<>>
    /\ t[1] \notin {" ", "{", "}"}
    /\ t[Len(t)] # " "

ScalarNode(style, text) == [style |-> style, text |-> text]
Nodes ==
    {ScalarNode("plain", t) : t \in {u \in Texts : IsPlainText(u)}}
        \cup {ScalarNode("quoted", t) : t \in Texts}

Document(kind, nodes) ==
    [kind |-> kind, nodes |-> nodes, fault |-> "", transcoding |-> "ok",
     retry_fault |-> ""]

\* the empty text, and a text of comments only
EmptyDocument == Document("empty", <<>>)
CommentDocument == Document("comment", <<>>)

\* the texts that parse: nothing, comments, a scalar, a sequence of scalars
\* ([] when empty), a mapping to scalars ({} when empty)
Documents ==
    {EmptyDocument, CommentDocument}
        \cup {Document("scalar", <<n>>) : n \in Nodes}
        \cup {Document(k, ns) : k \in {"seq", "map"}, ns \in SeqsUpTo(Nodes, MaxItems)}

\* the shared registries as the interpreter starts: ruamel.yaml's own
\* constructors for strings, no constructor for !env_var, no resolver added
InitialConstructors ==
    [k \in {"Loader/tag:yaml.org,2002:str", "SafeLoader/tag:yaml.org,2002:str",
            "SafeConstructor/!env_var"} |->
        IF k = "SafeConstructor/!env_var" THEN "" ELSE "ruamel.construct_yaml_str"]
InitialResolvers == <<>>

\* fix_yaml_loader(): the constructor tables after the call
fix_yaml_loader(ctors) ==
    [ctors EXCEPT !["Loader/tag:yaml.org,2002:str"] = "construct_yaml_str",
                  !["SafeLoader/tag:yaml.org,2002:str"] = "construct_yaml_str"]

\* replace_environment_variables(), first half: yaml.add_implicit_resolver
\* appends to the shared list of resolvers
add_implicit_resolver(resolvers) == Append(resolvers, "!env_var")

\* replace_environment_variables(), second half: SafeConstructor.add_constructor
add_env_var_constructor(ctors) ==
    [ctors EXCEPT !["SafeConstructor/!env_var"] = "env_var_constructor"]

\* env_var_constructor, after expanded_vars = os.path.expandvars(value)
CheckExpanded(value, expanded_vars) ==
    IF In("$", expanded_vars)
    THEN Raise([NoExc EXCEPT
             !.type = "ValueError",
             !.message = "Error when trying to expand the environment variables",
             !.text = value,
             !.names = SelectSeq(split(expanded_vars), HasDollar)])
    ELSE Value(PyStr(expanded_vars))

\* env_var_constructor(loader, node) on the scalar `value`
env_var_constructor(e, value) == CheckExpanded(value, expandvars(e, value))

\* the tag the resolver gives a plain scalar: YAML 1.2's own resolvers, then
\* the resolvers that were added
Resolve(resolvers, text) ==
    CASE text \in {<<>>, <<"~">>, <<"null">>} -> "null"
      [] text \in {<<"true">>, <<"false">>} -> "bool"
      [] text \in {<<"0">>, <<"1">>} -> "int"
      [] (\E i \in 1..Len(resolvers) : resolvers[i] = "!env_var")
             /\ env_var_pattern(text) -> "!env_var"
      [] OTHER -> "str"

\* the constructor's value for a scalar node of the tag `tag`
Construct(ctors, e, node, tag) ==
    CASE tag = "null" -> Value(PyNone)
      [] tag = "bool" -> Value(PyBool(node.text = <<"true">>))
      [] tag = "int" -> Value(PyInt(IF node.text = <<"1">> THEN 1 ELSE 0))
      [] tag = "!env_var" ->
             IF ctors["SafeConstructor/!env_var"] = "env_var_constructor"
             THEN env_var_constructor(e, node.text)
             ELSE Raise(LibraryError("ConstructorError", ""))
      [] OTHER -> Value(PyStr(node.text))

\* the constructor's value for one scalar node: a plain scalar has the tag the
\* resolver gives it, a quoted one is a string
construct_object(ctors, resolvers, e, node) ==
    Construct(ctors, e, node,
              IF node.style = "plain" THEN Resolve(resolvers, node.text) ELSE "str")

\* the first of the outcomes `outs` that is an exception
FirstFailure(outs) ==
    outs[CHOOSE j \in 1..Len(outs) : ~outs[j].ok /\ \A k \in 1..(j - 1) : outs[k].ok]

\* the value of a document whose scalars were constructed with the outcomes
\* `outs`: None for no document, the error of the first scalar that fails
Constructed(kind, outs, origin) ==
    IF \E i \in 1..Len(outs) : ~outs[i].ok
    THEN Raise([FirstFailure(outs).exc EXCEPT !.origin = origin])
    ELSE CASE kind \in {"empty", "comment"} -> Value(PyNone)
           [] kind = "scalar" -> Value(outs[1].value)
           [] kind = "seq" -> Value(PyList([i \in 1..Len(outs) |-> outs[i].value]))
           [] OTHER -> Value(PyDict([i \in 1..Len(outs) |-> outs[i].value]))

\* yaml_parser.load(text): the error of the pass over the text, or the value
\* constructed from its nodes
load(ctors, resolvers, e, text, origin) ==
    IF text.fault # "" THEN Raise(LibraryError(text.fault, origin))
    ELSE Constructed(text.kind,
                     [i \in 1..Len(text.nodes) |->
                          construct_object(ctors, resolvers, e, text.nodes[i])],
                     origin)

\* content.encode("utf-8").decode("raw_unicode_escape")
\*        .encode("utf-16", "surrogatepass").decode("utf-16")
transcode(text) ==
    IF text.transcoding # "ok"
    THEN [ok |-> FALSE, text |-> text,
          exc |-> LibraryError(text.transcoding, "transcode")]
    ELSE [ok |-> TRUE, text |-> [text EXCEPT !.fault = text.retry_fault],
          exc |-> NoExc]

\* the outcome of a call: what `o` says, and the texts handed to the parser
Outcome(o, loads) ==
    [ok |-> o.ok, value |-> o.value, exc |-> o.exc, loads |-> loads]

\* `return yaml_parser.load(content) or {}`, `o` being the outcome of the load
ReturnOrEmptyDict(o, loads) ==
    IF o.ok THEN Outcome(Value(OrEmptyDict(o.value)), loads) ELSE Outcome(o, loads)

\* the except branch of read_yaml, `t` being the outcome of the transcoding:
\* its error, or the second load, of the transcoded text
Retry(ctors, resolvers, e, text, t) ==
    IF ~t.ok THEN Outcome(Raise(t.exc), <<text>>)
    ELSE ReturnOrEmptyDict(load(ctors, resolvers, e, t.text, "load 2"),
                           <<text, t.text>>)

\* read_yaml with `except Exception` in the place of
\* `except yaml.scanner.ScannerError`: every failed first load is retried
RecoverAnyError(ctors, resolvers, e, text, first) ==
    IF first.ok
    THEN ReturnOrEmptyDict(first, <<text>>)
    ELSE Retry(ctors, resolvers, e, text, transcode(text))

\* the try / except of read_yaml, `first` being the outcome of the first load:
\* only a ScannerError is caught
Recover(ctors, resolvers, e, text, first) ==
    IF first.ok \/ first.exc.type # "ScannerError"
    THEN ReturnOrEmptyDict(first, <<text>>)
    ELSE Retry(ctors, resolvers, e, text, transcode(text))

\* the try / except of read_yaml, run with the registries as registered
load_with_recovery(ctors, resolvers, e, text) ==
    Recover(ctors, resolvers, e, text, load(ctors, resolvers, e, text, "load 1"))

\* read_yaml(content), called with the registries as they are: they are
\* registered first
read_yaml(ctors, resolvers, e, text) ==
    load_with_recovery(add_env_var_constructor(fix_yaml_loader(ctors)),
                       add_implicit_resolver(resolvers), e, text)

----------------------------------------------------------------------------
(* Paths.  A path is a text over "/" and letters; the file system is keyed  *)
(* by the sequence of the names on the way from the root.                  *)

PathChars == {"/", "a", "b"}
PathArgs == SeqsUpTo(PathChars, MaxPathLen)

\* os.getcwd(): the process runs in the root directory
Cwd == <<"/">>

RECURSIVE NameEnd(_, _)
\* the index of the last token of the run of non-"/" tokens that starts at i
NameEnd(s, i) == IF i <= Len(s) /\ s[i] # "/" THEN NameEnd(s, i + 1) ELSE i - 1

RECURSIVE Segments(_)
\* the non-empty names between the slashes of s
Segments(s) ==
    IF s = <<>> THEN <<>>
    ELSE IF s[1] = "/" THEN Segments(Tail(s))
    ELSE LET n == NameEnd(s, 1) IN <<Upto(s, n)>> \o Segments(From(s, n + 1))

RECURSIVE JoinSegments(_)
\* "/".join(names)
JoinSegments(names) ==
    IF names = <<>> THEN <<>>
    ELSE IF Len(names) = 1 THEN names[1]
    ELSE names[1] \o <<"/">> \o JoinSegments(Tail(names))

\* os.path.join(Cwd, path)
JoinCwd(path) ==
    IF StartsWith(path, <<"/">>) THEN path
    ELSE IF Cwd[Len(Cwd)] = "/" THEN Cwd \o path
    ELSE Cwd \o <<"/">> \o path

\* os.path.normpath of an absolute path without "." and ".." names: runs of
\* slashes collapse, except that exactly two leading slashes are kept
normpath(path) ==
    LET slashes == IF StartsWith(path, <<"/", "/">>) /\ ~StartsWith(path, <<"/", "/", "/">>)
                   THEN <<"/", "/">> ELSE <<"/">>
    IN  slashes \o JoinSegments(Segments(path))

\* os.path.abspath(path)
abspath(path) == normpath(JoinCwd(path))

RECURSIVE rstrip(_)
\* head.rstrip("/")
rstrip(s) == IF s # <<>> /\ s[Len(s)] = "/" THEN rstrip(Upto(s, Len(s) - 1)) ELSE s

\* path.rfind("/") + 1
AfterLastSlash(path) ==
    IF In("/", path)
    THEN CHOOSE i \in 1..Len(path) :
             path[i] = "/" /\ \A j \in (i + 1)..Len(path) : path[j] # "/"
    ELSE 0

\* os.path.dirname(path)
dirname(path) ==
    LET head == Upto(path, AfterLastSlash(path))
    IN  IF head # <<>> /\ rstrip(head) # <<>> THEN rstrip(head) ELSE head

\* the place in the file system a path argument names
Place(path) == Segments(JoinCwd(path))
Root == <<>>
Parent(place) == Upto(place, Len(place) - 1)
\* the places on the way to `place`, the root first, `place` itself left out
Ancestors(place) == {Upto(place, n) : n \in 0..(Len(place) - 1)}

\* what the operating system finds at the place `place`, named by `path`:
\* "dir", "file", or the errno of the lookup: ENOTDIR when the way runs
\* through a regular file (or a file is named with a trailing slash), ENOENT
\* when a name is missing
StatPlace(fs_files, fs_dirs, path, place) ==
    IF path = <<>> THEN "ENOENT"
    ELSE IF \E a \in Ancestors(place) : a \in DOMAIN fs_files THEN "ENOTDIR"
    ELSE IF \E a \in Ancestors(place) : a \notin fs_dirs THEN "ENOENT"
    ELSE IF place \in fs_dirs THEN "dir"
    ELSE IF place \in DOMAIN fs_files
         THEN IF path[Len(path)] = "/" THEN "ENOTDIR" ELSE "file"
    ELSE "ENOENT"

Stat(fs_files, fs_dirs, path) == StatPlace(fs_files, fs_dirs, path, Place(path))

\* os.path.exists(path)
exists(fs_files, fs_dirs, path) == Stat(fs_files, fs_dirs, path) \in {"dir", "file"}

----------------------------------------------------------------------------
(* Reading and writing files. *)

\* what read_file gives: the text of the file, or an exception
FileText(text) == [ok |-> TRUE, text |-> text, exc |-> NoExc]
FileError(exc) == [ok |-> FALSE, text |-> EmptyDocument, exc |-> exc]

\* read_file(filename), `st` being what open() finds: the text of a regular
\* file, or the OSError of the lookup; only FileNotFoundError (ENOENT) is
\* turned into the ValueError
ReadOpened(fs_files, filename, st) ==
    CASE st = "file" -> FileText(fs_files[Place(filename)])
      [] st = "ENOENT" ->
             FileError([NoExc EXCEPT !.type = "ValueError",
                                     !.message = "File '{}' does not exist.",
                                     !.path = filename])
      [] st = "dir" -> FileError(OSError("IsADirectoryError", "EISDIR", filename))
      [] OTHER -> FileError(OSError("NotADirectoryError", "ENOTDIR", filename))

\* read_file(filename)
read_file(fs_files, fs_dirs, filename) ==
    ReadOpened(fs_files, filename, Stat(fs_files, fs_dirs, filename))

\* read_yaml(read_file(filename, "utf-8")), `f` being what read_file gives
ReadYamlOf(ctors, resolvers, e, f) ==
    IF ~f.ok THEN Outcome(Raise(f.exc), <<>>)
    ELSE read_yaml(ctors, resolvers, e, f.text)

\* read_yaml_file(filename)
read_yaml_file(ctors, resolvers, e, fs_files, fs_dirs, filename) ==
    ReadYamlOf(ctors, resolvers, e, read_file(fs_files, fs_dirs, filename))

\* read_config_file(filename), `c` being the outcome of
\* read_yaml(read_file(filename, "utf-8"))
CheckMapping(filename, c) ==
    IF ~c.ok THEN c
    ELSE IF c.value.type = "NoneType" THEN Outcome(Value(PyDict(<<>>)), c.loads)
    ELSE IF c.value.type = "dict" THEN c
    ELSE Outcome(Raise([NoExc EXCEPT
             !.type = "ValueError",
             !.message = "Tried to load invalid config file",
             !.path = filename,
             !.found = c.value.type]), c.loads)

\* read_config_file(filename)
read_config_file(ctors, resolvers, e, fs_files, fs_dirs, filename) ==
    CheckMapping(filename,
                 ReadYamlOf(ctors, resolvers, e, read_file(fs_files, fs_dirs, filename)))

\* simplejson.loads(content) on the texts of the model: the JSON texts among
\* them are the literals 0, 1, true, false, null and the empty [] and {}
json_loads(text) ==
    IF /\ text.fault = ""
       /\ text.kind = "scalar"
       /\ text.nodes[1].style = "plain"
       /\ Len(text.nodes[1].text) = 1
       /\ text.nodes[1].text[1] \in {"0", "1", "true", "false", "null"}
    THEN construct_object(InitialConstructors, InitialResolvers, <<>>, text.nodes[1])
    ELSE IF text.fault = "" /\ text.kind \in {"seq", "map"} /\ text.nodes = <<>>
    THEN Value(IF text.kind = "seq" THEN PyList(<<>>) ELSE PyDict(<<>>))
    ELSE Raise(LibraryError("JSONDecodeError", ""))

\* read_json_file(filename), `j` being the outcome of simplejson.loads
JsonOutcome(filename, j) ==
    IF j.ok THEN Outcome(j, <<>>)
    ELSE Outcome(Raise([NoExc EXCEPT
             !.type = "ValueError",
             !.message = "Failed to read json from",
             !.path = abspath(filename)]), <<>>)

\* read_json_file(filename), `f` being what read_file gives
JsonOf(filename, f) ==
    IF ~f.ok THEN Outcome(Raise(f.exc), <<>>)
    ELSE JsonOutcome(filename, json_loads(f.text))

\* read_json_file(filename)
read_json_file(fs_files, fs_dirs, filename) ==
    JsonOf(filename, read_file(fs_files, fs_dirs, filename))

\* the node yaml.dump writes for a scalar: plain when the dumper's resolver
\* gives the plain text the value's own tag and the text may stand plain in a
\* block, quoted otherwise
represent(resolvers, v) ==
    CASE v.type = "NoneType" -> ScalarNode("plain", <<"null">>)
      [] v.type = "bool" ->
             ScalarNode("plain", IF v.num = 1 THEN <<"true">> ELSE <<"false">>)
      [] v.type = "int" -> ScalarNode("plain", IF v.num = 1 THEN <<"1">> ELSE <<"0">>)
      [] OTHER ->
             IF Resolve(resolvers, v.text) = "str" /\ IsPlainText(v.text)
             THEN ScalarNode("plain", v.text)
             ELSE ScalarNode("quoted", v.text)

\* yaml.dump(data, outfile, default_flow_style=False) of a mapping or a
\* sequence of scalars, or of a scalar
dump(resolvers, v) ==
    CASE v.type = "dict" ->
             Document("map", [i \in 1..Len(v.items) |-> represent(resolvers, v.items[i])])
      [] v.type = "list" ->
             Document("seq", [i \in 1..Len(v.items) |-> represent(resolvers, v.items[i])])
      [] OTHER -> Document("scalar", <<represent(resolvers, v)>>)

\* open(filename, "w"), `st` being what is found at the path: "ok" when the
\* file can be created or truncated, else the errno of the failure
OpenFound(fs_dirs, filename, st) ==
    CASE st = "file" -> "ok"
      [] st = "dir" -> "EISDIR"
      [] st = "ENOTDIR" -> "ENOTDIR"
      [] OTHER ->
             IF filename = <<>> THEN "ENOENT"
             ELSE IF \E a \in Ancestors(Place(filename)) : a \notin fs_dirs
                  THEN "ENOENT"
             ELSE IF filename[Len(filename)] = "/" THEN "EISDIR"
             ELSE "ok"

open_for_writing(fs_files, fs_dirs, filename) ==
    OpenFound(fs_dirs, filename, Stat(fs_files, fs_dirs, filename))

\* the OSError class of an errno
ErrorClass(errno) ==
    CASE errno = "ENOENT" -> "FileNotFoundError"
      [] errno = "EEXIST" -> "FileExistsError"
      [] errno = "EISDIR" -> "IsADirectoryError"
      [] OTHER -> "NotADirectoryError"

----------------------------------------------------------------------------
(* The calls. *)

NoCall ==
    [op |-> "", filename |-> NoPath, ok |-> TRUE, value |-> PyNone,
     exc |-> NoExc, loads |-> <<>>]
\* the record of a finished call
Call(op, filename, o) ==
    [op |-> op, filename |-> filename, ok |-> o.ok, value |-> o.value,
     exc |-> o.exc, loads |-> o.loads]

\* the registrations of read_yaml take effect in the shared registries
Register ==
    /\ Len(implicit_resolvers) < MaxRegistrations
    /\ constructors' = add_env_var_constructor(fix_yaml_loader(constructors))
    /\ implicit_resolvers' = add_implicit_resolver(implicit_resolvers)

\* a call of read_yaml(content)
ReadYaml ==
    /\ Register
    /\ result' = Call("read_yaml", NoPath,
                      read_yaml(constructors, implicit_resolvers, env, content))
    /\ UNCHANGED <<env, files, dirs, content, data, written, file_path, parent_directory, thread>>

\* read_yaml is reached only when read_file returned
ReadsFile(filename) == read_file(files, dirs, filename).ok

\* a call of read_yaml_file(filename)
ReadYamlFile(filename) ==
    /\ IF ReadsFile(filename) THEN Register
       ELSE UNCHANGED <<constructors, implicit_resolvers>>
    /\ result' = Call("read_yaml_file", filename,
                      read_yaml_file(constructors, implicit_resolvers, env,
                                     files, dirs, filename))
    /\ UNCHANGED <<env, files, dirs, content, data, written, file_path, parent_directory, thread>>

\* a call of read_config_file(filename)
ReadConfigFile(filename) ==
    /\ IF ReadsFile(filename) THEN Register
       ELSE UNCHANGED <<constructors, implicit_resolvers>>
    /\ result' = Call("read_config_file", filename,
                      read_config_file(constructors, implicit_resolvers, env,
                                       files, dirs, filename))
    /\ UNCHANGED <<env, files, dirs, content, data, written, file_path, parent_directory, thread>>

\* a call of read_json_file(filename)
ReadJsonFile(filename) ==
    /\ result' = Call("read_json_file", filename,
                      read_json_file(files, dirs, filename))
    /\ UNCHANGED <<env, constructors, implicit_resolvers, files, dirs, content,
                   data, written, file_path, parent_directory, thread>>

\* write_yaml_file(data, filename), `errno` being how open(filename, "w") ends:
\* the file holds the dump of data, written with the resolvers registered so far
WriteOpened(filename, errno) ==
    IF errno = "ok"
    THEN /\ files' = (Place(filename) :> dump(implicit_resolvers, data)) @@ files
         /\ written' = (Place(filename) :> data) @@ written
         /\ result' = Call("write_yaml_file", filename, Outcome(Value(PyNone), <<>>))
    ELSE /\ UNCHANGED <<files, written>>
         /\ result' = Call("write_yaml_file", filename,
                           Outcome(Raise(OSError(ErrorClass(errno), errno, filename)),
                                   <<>>))

\* a call of write_yaml_file(data, filename)
WriteYamlFile(filename) ==
    /\ WriteOpened(filename, open_for_writing(files, dirs, filename))
    /\ UNCHANGED <<env, constructors, implicit_resolvers, dirs, content, data,
                   file_path, parent_directory, thread>>

----------------------------------------------------------------------------
(* The path helpers. *)

\* Python's None, where a path is expected
None == <<"None">>

\* is_subdirectory(path, potential_parent_directory)
is_subdirectory(path, potential_parent) ==
    IF path = None \/ potential_parent = None THEN FALSE
    ELSE IsSubstring(abspath(potential_parent), abspath(path))

\* a call of is_subdirectory(file_path, parent_directory)
IsSubdirectory ==
    /\ result' = Call("is_subdirectory", NoPath,
                      Outcome(Value(PyBool(is_subdirectory(file_path, parent_directory))),
                              <<>>))
    /\ UNCHANGED <<env, constructors, implicit_resolvers, files, dirs, content,
                   data, written, file_path, parent_directory, thread>>

\* os.makedirs(name), which names the place `place`: the errno it fails
\* with, or "ok".  The directory itself must not exist; the missing
\* directories on the way are made with it.
MakedirsAt(fs_files, fs_dirs, name, place) ==
    IF name = <<>> THEN "ENOENT"
    ELSE IF \E a \in Ancestors(place) : a \in DOMAIN fs_files THEN "ENOTDIR"
    ELSE IF place \in fs_dirs \/ place \in DOMAIN fs_files THEN "EEXIST"
    ELSE "ok"

makedirs_errno(fs_files, fs_dirs, name) == MakedirsAt(fs_files, fs_dirs, name, Place(name))

\* the directories after a successful os.makedirs(name)
makedirs(fs_dirs, name) == fs_dirs \cup Ancestors(Place(name)) \cup {Place(name)}

Threads == 1..NumThreads
Idle ==
    [pc |-> "idle", op |-> "", ok |-> TRUE, exc |-> NoExc, calls |-> 0,
     existed |-> FALSE]

\* whether the parent directory of file_path exists
ParentExists == exists(files, dirs, dirname(abspath(file_path)))

CanCall(t) == thread[t].pc \in {"idle", "done"} /\ thread[t].calls < MaxCalls

\* create_path(file_path), first step: os.path.exists(parent_dir)
CreatePathExists(t) ==
    /\ CanCall(t)
    /\ thread' = [thread EXCEPT ![t] =
           [pc |-> IF ParentExists THEN "done" ELSE "makedirs",
            op |-> "create_path", ok |-> TRUE, exc |-> NoExc,
            calls |-> thread[t].calls + 1, existed |-> ParentExists]]
    /\ UNCHANGED <<env, constructors, implicit_resolvers, files, dirs, content,
                   data, result, written, file_path, parent_directory>>

\* create_path(file_path), second step: os.makedirs(parent_dir), which ends
\* with `errno`
MakeParent(t, parent_dir, errno) ==
    IF errno = "ok"
    THEN /\ dirs' = makedirs(dirs, parent_dir)
         /\ thread' = [thread EXCEPT ![t].pc = "done"]
    ELSE /\ UNCHANGED dirs
         /\ thread' = [thread EXCEPT
                ![t].pc = "done", ![t].ok = FALSE,
                ![t].exc = OSError(ErrorClass(errno), errno, parent_dir)]

\* create_path(file_path), second step
CreatePathMakedirs(t) ==
    /\ thread[t].pc = "makedirs"
    /\ MakeParent(t, dirname(abspath(file_path)),
                  makedirs_errno(files, dirs, dirname(abspath(file_path))))
    /\ UNCHANGED <<env, constructors, implicit_resolvers, files, content, data,
                   result, written, file_path, parent_directory>>

\* create_directory_for_file(file_path), os.makedirs(name) ending with `errno`:
\* an OSError other than EEXIST is raised again
MakeDirectoryFor(t, name, errno) ==
    /\ dirs' = IF errno = "ok" THEN makedirs(dirs, name) ELSE dirs
    /\ thread' = [thread EXCEPT ![t] =
           [pc |-> "done", op |-> "create_directory_for_file",
            ok |-> errno \in {"ok", "EEXIST"},
            exc |-> IF errno \in {"ok", "EEXIST"} THEN NoExc
                    ELSE OSError(ErrorClass(errno), errno, name),
            calls |-> thread[t].calls + 1, existed |-> ParentExists]]

\* create_directory_for_file(file_path)
CreateDirectoryForFile(t) ==
    /\ CanCall(t)
    /\ MakeDirectoryFor(t, dirname(file_path),
                        makedirs_errno(files, dirs, dirname(file_path)))
    /\ UNCHANGED <<env, constructors, implicit_resolvers, files, content, data,
                   result, written, file_path, parent_directory>>

----------------------------------------------------------------------------
(* The specifications. *)

\* the path of the configuration file: a file name in the working directory
ConfigFile == <<"a">>

\* the interpreter has started and nothing of the module was called
Started ==
    /\ constructors = InitialConstructors
    /\ implicit_resolvers = InitialResolvers
    /\ result = NoCall
    /\ written = <<>>
    /\ thread = [t \in Threads |-> Idle]

NoEnvironment == [n \in EnvNames |-> [set |-> FALSE, val |-> <<>>]]

\* Reading YAML: any environment, any text that parses, held by the caller and
\* stored in the configuration file
Init ==
    /\ Started
    /\ env \in Environments
    /\ content \in Documents
    /\ files = (Place(ConfigFile) :> content)
    /\ dirs = {Root}
    /\ data = PyDict(<<>>)
    /\ file_path = ConfigFile
    /\ parent_directory = None

Next ==
    \/ ReadYaml
    \/ ReadYamlFile(file_path)
    \/ ReadConfigFile(file_path)

Spec == Init /\ [][Next]_vars

\* a few scalars: text, a placeholder, a number, the empty string
SampleNodes ==
    {ScalarNode("plain", <<"a">>), ScalarNode("plain", <<"$", "{", "F", "}">>),
     ScalarNode("plain", <<"0">>), ScalarNode("quoted", <<>>)}

\* how the pass over a text may end: it parses, or the scanner or the parser fails
Faults == {"", "ScannerError", "ParserError"}

\* the texts of the recovery path: texts whose first pass fails or not, whose
\* transcoding fails or not, whose second pass fails or not
RecoveryTexts ==
    {[kind |-> "map", nodes |-> ns, fault |-> f, transcoding |-> t, retry_fault |-> r] :
        ns \in SeqsUpTo(SampleNodes, MaxItems), f \in Faults,
        t \in {"ok", "UnicodeDecodeError"}, r \in Faults}
    \cup
    {[kind |-> "scalar", nodes |-> <<n>>, fault |-> f, transcoding |-> t,
      retry_fault |-> r] :
        n \in SampleNodes, f \in Faults,
        t \in {"ok", "UnicodeDecodeError"}, r \in Faults}

InitRecovery ==
    /\ Started
    /\ env \in Environments
    /\ content \in RecoveryTexts
    /\ files = (Place(ConfigFile) :> content)
    /\ dirs = {Root}
    /\ data = PyDict(<<>>)
    /\ file_path = ConfigFile
    /\ parent_directory = None

SpecRecovery == InitRecovery /\ [][Next]_vars

\* the scalars a mapping may hold
ScalarValues ==
    {PyStr(t) : t \in Texts} \cup {PyInt(0), PyInt(1), PyBool(TRUE), PyBool(FALSE)}
\* the mappings whose values are text, number or bool scalars
Mappings == {PyDict(vs) : vs \in SeqsUpTo(ScalarValues, MaxItems)}

\* Writing and reading back: any environment, any mapping, no file yet
InitRoundTrip ==
    /\ Started
    /\ env \in Environments
    /\ content = EmptyDocument
    /\ files = <<>>
    /\ dirs = {Root}
    /\ data \in Mappings
    /\ file_path = ConfigFile
    /\ parent_directory = None

NextFiles ==
    \/ ReadYaml
    \/ ReadYamlFile(file_path)
    \/ ReadConfigFile(file_path)
    \/ ReadJsonFile(file_path)
    \/ WriteYamlFile(file_path)

SpecRoundTrip == InitRoundTrip /\ [][NextFiles]_vars

\* a few texts: nothing, a mapping, a sequence, scalars
SampleDocuments ==
    {EmptyDocument, Document("map", <<ScalarNode("plain", <<"a">>)>>),
     Document("seq", <<>>), Document("scalar", <<ScalarNode("plain", <<"1">>)>>),
     Document("scalar", <<ScalarNode("plain", <<"a">>)>>)}

\* the file systems a call may find: no file, a file in the working directory,
\* a file in a directory, a directory without files
FileSystems(doc) ==
    {[files |-> <<>>, dirs |-> {Root}],
     [files |-> (<<<<"a">>>> :> doc), dirs |-> {Root}],
     [files |-> (<<<<"b">>, <<"a">>>> :> doc), dirs |-> {Root, <<<<"b">>>>}],
     [files |-> <<>>, dirs |-> {Root, <<<<"b">>>>}]}

\* Reading files: any path, over each of the file systems
InitFiles ==
    /\ Started
    /\ env = NoEnvironment
    /\ content = EmptyDocument
    /\ \E doc \in SampleDocuments : \E fs \in FileSystems(doc) :
           files = fs.files /\ dirs = fs.dirs
    /\ data = PyDict(<<PyStr(<<"a">>)>>)
    /\ file_path \in PathArgs
    /\ parent_directory = None

SpecFiles == InitFiles /\ [][NextFiles]_vars

\* The path helpers: any path, no directory but the root, the threads idle
InitPath ==
    /\ Started
    /\ env = NoEnvironment
    /\ content = EmptyDocument
    /\ files = <<>>
    /\ dirs = {Root}
    /\ data = PyDict(<<>>)
    /\ file_path \in PathArgs
    /\ parent_directory = None

NextPath ==
    \E t \in Threads :
        \/ CreatePathExists(t)
        \/ CreatePathMakedirs(t)
        \/ CreateDirectoryForFile(t)

SpecPath == InitPath /\ [][NextPath]_vars

\* is_subdirectory: any two arguments, a path or None each
InitSubdirectory ==
    /\ Started
    /\ env = NoEnvironment
    /\ content = EmptyDocument
    /\ files = <<>>
    /\ dirs = {Root}
    /\ data = PyDict(<<>>)
    /\ file_path \in PathArgs \cup {None}
    /\ parent_directory \in PathArgs \cup {None}

NextSubdirectory == IsSubdirectory

SpecSubdirectory == InitSubdirectory /\ [][NextSubdirectory]_vars

----------------------------------------------------------------------------
(* The claims. *)

\* the last call was one of the YAML readers
ReadYamlCall == result.op \in {"read_yaml", "read_yaml_file", "read_config_file"}

\* the text the last call read: the caller's for read_yaml, the file's otherwise
TextRead ==
    IF result.op = "read_yaml" THEN content ELSE files[Place(result.filename)]

\* a plain scalar that YAML reads as null
IsNullNode(n) == n.style = "plain" /\ n.text \in {<<"~">>, <<"null">>}

\* the top level of the text is a sequence, or a scalar that is not null
SequenceOrScalar(text) ==
    \/ text.kind = "seq"
    \/ text.kind = "scalar" /\ ~IsNullNode(text.nodes[1])

InvalidShape(exc, filename) ==
    /\ exc.type = "ValueError"
    /\ exc.message = "Tried to load invalid config file"
    /\ exc.path = filename
    /\ exc.found \in {"list", "str", "int", "bool"}

UnresolvedVariable(exc) ==
    /\ exc.type = "ValueError"
    /\ exc.message = "Error when trying to expand the environment variables"

(* C1: read_config_file returns a value only when the top level of the file  *)
(* is a mapping: on a file whose top level is a sequence or a scalar the     *)
(* call never returns a value, it fails with the invalid-config ValueError   *)
(* naming the file and the type found (or, before the shape is looked at,    *)
(* with the error of an unresolved variable).                                *)
C1_SequenceOrScalarIsRefused ==
    (result.op = "read_config_file" /\ SequenceOrScalar(TextRead))
        => /\ ~result.ok
           /\ \/ InvalidShape(result.exc, result.filename)
              \/ UnresolvedVariable(result.exc)

\* the Python type a top-level node of the kind `kind` is read as
SameShape(text, v) ==
    CASE text.kind = "map" -> v.type = "dict" /\ Len(v.items) = Len(text.nodes)
      [] text.kind = "seq" -> v.type = "list" /\ Len(v.items) = Len(text.nodes)
      [] OTHER -> v.type \in {"str", "int", "bool"}

(* C2: read_yaml and read_yaml_file never return None; nothing and comments  *)
(* only give the empty mapping; the empty mapping is substituted for a null  *)
(* top level only, so a text whose top level is a mapping, a sequence or a   *)
(* scalar that is not null is returned with its own shape.                   *)
C2_OnlyNullBecomesEmptyMapping ==
    (result.op \in {"read_yaml", "read_yaml_file"} /\ result.ok)
        => /\ result.value.type # "NoneType"
           /\ TextRead.kind \in {"empty", "comment"} => result.value = PyDict(<<>>)
           /\ (TextRead.kind = "map" \/ SequenceOrScalar(TextRead))
                  => SameShape(TextRead, result.value)

Placeholder == <<"$", "{", "F", "}">>

\* the text is the mapping `key: ${F}`
IsPlaceholderMapping(text) ==
    text.kind = "map" /\ text.nodes = <<ScalarNode("plain", Placeholder)>>

(* C3: reading `key: ${F}`: when F is set, to any value, the load succeeds   *)
(* and the scalar is the value of F; when F is not set the load fails with   *)
(* the ValueError that names the unresolved ${F}.                            *)
C3_PlaceholderIsTheValue ==
    (ReadYamlCall /\ IsPlaceholderMapping(TextRead))
        => IF env[<<"F">>].set
           THEN result.ok /\ result.value = PyDict(<<PyStr(env[<<"F">>].val)>>)
           ELSE /\ ~result.ok
                /\ UnresolvedVariable(result.exc)
                /\ result.exc.names = <<Placeholder>>

\* the text handed to the second load when the first load of `text` is retried
Transcoded(text) == [text EXCEPT !.fault = text.retry_fault]

\* the parts of the recovery protocol that do not say which error is surfaced:
\* at most two loads, the first of the text as given, the second only after a
\* ScannerError of the first and of the transcoded text, any other error of
\* the first load surfaced as it is
RecoveryProtocol ==
    /\ Len(result.loads) \in {1, 2}
    /\ result.loads[1] = TextRead
    /\ Len(result.loads) = 2
           => /\ TextRead.fault = "ScannerError"
              /\ TextRead.transcoding = "ok"
              /\ result.loads[2] = Transcoded(TextRead)
    /\ TextRead.fault \notin {"", "ScannerError"}
           => /\ ~result.ok
              /\ result.exc = LibraryError(TextRead.fault, "load 1")
              /\ Len(result.loads) = 1

\* the recovery failed: the transcoding, or the second load
TranscodingFailed == TextRead.fault = "ScannerError" /\ TextRead.transcoding # "ok"
SecondLoadFailed ==
    /\ TextRead.fault = "ScannerError"
    /\ TextRead.transcoding = "ok"
    /\ TextRead.retry_fault # ""

(* C4, as claimed: the recovery protocol of read_yaml, and when the recovery *)
(* step or the second load fails, the error surfaced is the ScannerError of  *)
(* the first load.                                                           *)
C4_OriginalErrorIsSurfaced ==
    ReadYamlCall
        => /\ RecoveryProtocol
           /\ (TranscodingFailed \/ SecondLoadFailed)
                  => /\ ~result.ok
                     /\ result.exc = LibraryError("ScannerError", "load 1")

(* C4, amended: the recovery protocol of read_yaml, and when the recovery    *)
(* step fails the error surfaced is the error of the transcoding, raised     *)
(* before any second load; when the second load fails the error surfaced is  *)
(* the error of the second load.                                             *)
C4_RecoveryErrorIsSurfaced ==
    ReadYamlCall
        => /\ RecoveryProtocol
           /\ TranscodingFailed
                  => /\ ~result.ok
                     /\ result.exc = LibraryError(TextRead.transcoding, "transcode")
                     /\ Len(result.loads) = 1
           /\ SecondLoadFailed
                  => /\ ~result.ok
                     /\ result.exc = LibraryError(TextRead.retry_fault, "load 2")
                     /\ Len(result.loads) = 2

\* read_yaml retried a text whose second load failed with another error than
\* the first
C4_SecondLoadFailedWitness ==
    /\ result.op = "read_yaml"
    /\ SecondLoadFailed
    /\ Len(result.loads) = 2
    /\ ~result.ok
    /\ result.exc.type = "ParserError"

(* C5: read_config_file, read_yaml_file and read_json_file on a path that    *)
(* does not exist fail with the ValueError "File '{}' does not exist." that  *)
(* holds the path as it was passed, and nothing is parsed.                   *)
C5_MissingPathIsNotFound ==
    (/\ result.op \in {"read_config_file", "read_yaml_file", "read_json_file"}
     /\ ~exists(files, dirs, result.filename))
        => /\ ~result.ok
           /\ result.exc.type = "ValueError"
           /\ result.exc.message = "File '{}' does not exist."
           /\ result.exc.path = result.filename
           /\ result.loads = <<>>

(* C6: a mapping of text, number and bool scalars that write_yaml_file wrote *)
(* to a file is what read_yaml_file reads back from the file.                *)
C6_RoundTrip ==
    (result.op = "read_yaml_file" /\ Place(result.filename) \in DOMAIN written)
        => result.ok /\ result.value = written[Place(result.filename)]

(* C7: calls of read_yaml leave the shared registries of the YAML library as *)
(* they were before the first call.                                          *)
C7_RegistriesAreUnchanged ==
    /\ constructors = InitialConstructors
    /\ implicit_resolvers = InitialResolvers

\* a path that names a file: not empty, no trailing slash
IsFilePath(path) == path # <<>> /\ path[Len(path)] # "/"

(* C8: for a file path, absolute, relative or a bare file name, a call of    *)
(* create_path or of create_directory_for_file that finds the parent         *)
(* directory existing succeeds.                                              *)
C8_ExistingParentSucceeds ==
    \A t \in Threads :
        (IsFilePath(file_path) /\ thread[t].pc = "done" /\ thread[t].existed)
            => thread[t].ok

\* whether the names `p` are the first names of `q`
IsPrefix(p, q) == Len(p) <= Len(q) /\ Upto(q, Len(p)) = p

(* C9: is_subdirectory is False when an argument is None, and is True only   *)
(* if the names of the absolute parent are the first names of the absolute   *)
(* path.                                                                     *)
C9_SegmentComparison ==
    result.op = "is_subdirectory"
        => /\ (file_path = None \/ parent_directory = None) => result.value = PyBool(FALSE)
           /\ (result.value = PyBool(TRUE))
                  => IsPrefix(Segments(abspath(parent_directory)),
                              Segments(abspath(file_path)))

(* C10: under any interleaving of calls of create_path and of                *)
(* create_directory_for_file for the same missing parent directory, no call  *)
(* fails because another call made the directory first.                      *)
C10_NoCallFailsOnExistingDirectory ==
    \A t \in Threads :
        (thread[t].pc = "done" /\ ~thread[t].ok) => thread[t].exc.errno # "EEXIST"

====
